---- MODULE Spec2Model ----
(***************************************************************************)
(* A model of src/src/components/AICostEstimator.tsx: the AICostEstimator  *)
(* component (its React state, the start-analysis button, the asynchronous *)
(* analyzeProject handler) and the pure function extractAndParseJSON.      *)
(*                                                                         *)
(* A text is a sequence of characters.  Every one-character string is that *)
(* character; a longer string ("Shed", "25", "true") stands for a run of   *)
(* letters or digits that holds none of the characters the code looks at   *)
(* ({ } [ ] , : / " space, line feed).                                     *)
(***************************************************************************)
EXTENDS Integers, Sequences, FiniteSets, TLC

----------------------------------------------------------------------------
(* JavaScript values *)

JsUndefined == [t |-> "undefined"]
JsNull == [t |-> "null"]
JsNumber(n) == [t |-> "number", n |-> n]
JsString(s) == [t |-> "string", s |-> s]
JsBoolean(b) == [t |-> "boolean", b |-> b]
JsArray(items) == [t |-> "array", items |-> items]
JsObject(props) == [t |-> "object", props |-> props]

\* new Error(message), and a thrown value that is no Error.
Error(message) == [isError |-> TRUE, message |-> message]
NonError == [isError |-> FALSE, message |-> ""]

\* The operand test of `a || b`: a is falsy.
Falsy(v) ==
  \/ v.t \in {"undefined", "null"}
  \/ v.t = "number" /\ v.n = 0
  \/ v.t = "string" /\ v.s = ""
  \/ v.t = "boolean" /\ ~v.b

\* a || b
OrElse(a, b) == IF Falsy(a) THEN b ELSE a

\* The property read v.k of a value that is neither null nor undefined; of the
\* names the code reads, only an object's own properties are ever defined.
Get(v, k) ==
  IF v.t = "object" /\ k \in DOMAIN v.props THEN v.props[k] ELSE JsUndefined

\* The message of the TypeError the property read v.k raises when v is null or
\* undefined (V8's wording; other engines word it differently, none empty).
CannotRead(v, k) ==
  Error("Cannot read properties of " \o v.t \o " (reading '" \o k \o "')")

\* The TypeError of calling a .map that is no function.
NotAFunction(k) == Error("parsedEstimation." \o k \o ".map is not a function")

----------------------------------------------------------------------------
(* Regular expressions of extractAndParseJSON *)

\* \s, and the line terminators that `.` does not match and `$` (flag m) stops at.
Whitespace == {" ", "\n"}
LineTerminators == {"\n"}

\* The least element of a non-empty set of indices.
Min(S) == CHOOSE i \in S : \A k \in S : i <= k

\* The first index >= i of s that holds no whitespace (Len(s)+1 if none): where
\* \s* stops.
SkipWs(s, i) ==
  Min({k \in i..Len(s) : s[k] \notin Whitespace} \cup {Len(s) + 1})

\* str.match(/{[\s\S]*}/): from the first "{" to the last "}" after it; <<>> (which
\* no match equals, a match holding at least "{}") stands for null.
jsonMatch(str) ==
  LET opens == {i \in 1..Len(str) : str[i] = "{"}
      first == Min(opens)
      closes == {j \in 1..Len(str) : str[j] = "}" /\ j > first}
      last == CHOOSE j \in closes : \A k \in closes : k <= j
  IN  IF opens = {} THEN <<>>
      ELSE IF closes = {} THEN <<>>
      ELSE SubSeq(str, first, last)

\* The index where the line holding index i ends: the first line terminator at
\* or after i, or Len(s)+1. This is where `.*$` stops under flag m.
EndOfLine(s, i) ==
  Min({k \in i..Len(s) : s[k] \in LineTerminators} \cup {Len(s) + 1})

\* .replace(/\/\/.*$/gm, ''), the search resuming at index i (flag g): the text
\* up to the leftmost "//" is kept, the match dropped, and the search resumes
\* where the match ended.
RECURSIVE ReplaceLineComments(_, _)
ReplaceLineComments(s, i) ==
  LET starts == {j \in i..(Len(s) - 1) : s[j] = "/" /\ s[j + 1] = "/"}
  IN  IF starts = {} THEN SubSeq(s, i, Len(s))
      ELSE SubSeq(s, i, Min(starts) - 1)
           \o ReplaceLineComments(s, EndOfLine(s, Min(starts)))

\* Whether /,\s*}/ (or /,\s*]/) matches at index j of s.
TrailingCommaAt(s, j, closer) ==
  /\ s[j] = ","
  /\ SkipWs(s, j + 1) <= Len(s)
  /\ s[SkipWs(s, j + 1)] = closer

\* .replace(/,\s*}/g, '}') and .replace(/,\s*]/g, ']'), the search resuming at
\* index i: the leftmost match is replaced by the closer alone.
RECURSIVE ReplaceTrailingComma(_, _, _)
ReplaceTrailingComma(s, i, closer) ==
  LET starts == {j \in i..Len(s) : TrailingCommaAt(s, j, closer)}
  IN  IF starts = {} THEN SubSeq(s, i, Len(s))
      ELSE SubSeq(s, i, Min(starts) - 1) \o <<closer>>
           \o ReplaceTrailingComma(s, SkipWs(s, Min(starts) + 1) + 1, closer)

\* The replacement with flag m forgotten: `$` then matches at the end of the text
\* only, so a comment is dropped only from the last line.
StripCommentsNoFlagM(s) ==
  LET starts == {j \in 1..(Len(s) - 1) :
                   /\ s[j] = "/" /\ s[j + 1] = "/"
                   /\ \A k \in j..Len(s) : s[k] \notin LineTerminators}
  IN  IF starts = {} THEN s ELSE SubSeq(s, 1, Min(starts) - 1)

StripComments(s) == ReplaceLineComments(s, 1)
DropCommaBrace(s) == ReplaceTrailingComma(s, 1, "}")
DropCommaBracket(s) == ReplaceTrailingComma(s, 1, "]")

\* let cleaned = jsonMatch[0].replace(..).replace(..).replace(..)
cleaned(candidate) == DropCommaBracket(DropCommaBrace(StripComments(candidate)))

----------------------------------------------------------------------------
(* JSON.parse *)

\* The number literals of the texts and their values.
NumberLiterals ==
  ("0" :> 0) @@ ("2" :> 2) @@ ("3" :> 3) @@ ("5" :> 5) @@ ("8" :> 8)
  @@ ("10" :> 10) @@ ("25" :> 25) @@ ("40" :> 40)

ParseFail == [ok |-> FALSE, val |-> JsUndefined, pos |-> 0]
ParseOk(v, p) == [ok |-> TRUE, val |-> v, pos |-> p]

RECURSIVE ConcatAll(_)
ConcatAll(chars) ==
  IF chars = <<>> THEN "" ELSE Head(chars) \o ConcatAll(Tail(chars))

\* A string literal opening at s[i]: to the next quote, no line feed inside.
ParseString(s, i) ==
  LET j == Min({k \in (i + 1)..Len(s) : s[k] = "\""} \cup {Len(s) + 1})
  IN  IF i > Len(s) \/ s[i] # "\"" \/ j > Len(s) THEN ParseFail
      ELSE IF \E k \in (i + 1)..(j - 1) : s[k] \in LineTerminators THEN ParseFail
      ELSE ParseOk(JsString(ConcatAll(SubSeq(s, i + 1, j - 1))), j + 1)

RECURSIVE ParseValue(_, _)
RECURSIVE ParseMembers(_, _, _)
RECURSIVE ParseElements(_, _, _)

\* The value that starts at s[i], i past any whitespace.
ParseValue(s, i) ==
  IF i > Len(s) THEN ParseFail
  ELSE IF s[i] = "{" THEN
    LET j == SkipWs(s, i + 1)
    IN  IF j <= Len(s) /\ s[j] = "}" THEN ParseOk(JsObject(<<>>), j + 1)
        ELSE ParseMembers(s, j, <<>>)
  ELSE IF s[i] = "[" THEN
    LET j == SkipWs(s, i + 1)
    IN  IF j <= Len(s) /\ s[j] = "]" THEN ParseOk(JsArray(<<>>), j + 1)
        ELSE ParseElements(s, j, <<>>)
  ELSE IF s[i] = "\"" THEN ParseString(s, i)
  ELSE IF s[i] \in DOMAIN NumberLiterals
    THEN ParseOk(JsNumber(NumberLiterals[s[i]]), i + 1)
  ELSE IF s[i] = "true" THEN ParseOk(JsBoolean(TRUE), i + 1)
  ELSE IF s[i] = "false" THEN ParseOk(JsBoolean(FALSE), i + 1)
  ELSE IF s[i] = "null" THEN ParseOk(JsNull, i + 1)
  ELSE ParseFail

\* The members of an object from s[i] on, `props` those read so far; a key read
\* again replaces its earlier value.
ParseMembers(s, i, props) ==
  LET key == ParseString(s, i)
      colon == SkipWs(s, key.pos)
      val == ParseValue(s, SkipWs(s, colon + 1))
      next == SkipWs(s, val.pos)
      more == (key.val.s :> val.val) @@ props
  IN  IF ~key.ok THEN ParseFail
      ELSE IF colon > Len(s) \/ s[colon] # ":" THEN ParseFail
      ELSE IF ~val.ok \/ next > Len(s) THEN ParseFail
      ELSE IF s[next] = "," THEN ParseMembers(s, SkipWs(s, next + 1), more)
      ELSE IF s[next] = "}" THEN ParseOk(JsObject(more), next + 1)
      ELSE ParseFail

\* The elements of an array from s[i] on, `items` those read so far.
ParseElements(s, i, items) ==
  LET val == ParseValue(s, i)
      next == SkipWs(s, val.pos)
      more == Append(items, val.val)
  IN  IF ~val.ok \/ next > Len(s) THEN ParseFail
      ELSE IF s[next] = "," THEN ParseElements(s, SkipWs(s, next + 1), more)
      ELSE IF s[next] = "]" THEN ParseOk(JsArray(more), next + 1)
      ELSE ParseFail

\* JSON.parse(text): one value, whitespace around it, nothing else.
JSONparse(text) ==
  LET r == ParseValue(text, SkipWs(text, 1))
  IN  IF r.ok /\ SkipWs(text, r.pos) > Len(text)
      THEN [threw |-> FALSE, value |-> r.val]
      ELSE [threw |-> TRUE, value |-> JsUndefined]

\* extractAndParseJSON with the missing match soft-failed like the parse, null
\* returned instead of the throw.
extractAndParseJSONNoThrow(str) ==
  LET m == jsonMatch(str)
      parsed == JSONparse(cleaned(m))
  IN  IF m = <<>> \/ parsed.threw
      THEN [threw |-> FALSE, error |-> NonError, value |-> JsNull]
      ELSE [threw |-> FALSE, error |-> NonError, value |-> parsed.value]

\* function extractAndParseJSON(str): throws when nothing matches; returns the
\* parsed value, or null when JSON.parse throws.
NotFoundMessage == "JSON object not found."

extractAndParseJSON(str) ==
  LET m == jsonMatch(str)
      parsed == JSONparse(cleaned(m))
  IN  IF m = <<>> THEN [threw |-> TRUE, error |-> Error(NotFoundMessage), value |-> JsUndefined]
      ELSE IF parsed.threw THEN [threw |-> FALSE, error |-> NonError, value |-> JsNull]
      ELSE [threw |-> FALSE, error |-> NonError, value |-> parsed.value]

----------------------------------------------------------------------------
(* The mapping step of analyzeProject *)

\* crypto.randomUUID(), as the call that follows n earlier calls: a value no
\* earlier call returned.
randomUUID(n) == JsString("uuid-" \o ToString(n + 1))

\* Material with ?? written for ||: only null and undefined take the default.
MaterialNullish(m, id) ==
  LET Or(a, b) == IF a.t \in {"null", "undefined"} THEN b ELSE a
  IN  [id |-> id,
       name |-> Or(Get(m, "name"), JsString("Material")),
       unit |-> Or(Get(m, "unit"), JsString("unit")),
       costPerUnit |-> Or(Get(m, "costPerUnit"), JsNumber(0)),
       quantity |-> Get(m, "quantity"),
       description |-> Or(Get(m, "description"), JsString(""))]

\* The Material built from entry m of parsedEstimation.materials.
Material(m, id) ==
  [id |-> id,
   name |-> OrElse(Get(m, "name"), JsString("Material")),
   unit |-> OrElse(Get(m, "unit"), JsString("unit")),
   costPerUnit |-> OrElse(Get(m, "costPerUnit"), JsNumber(0)),
   quantity |-> Get(m, "quantity"),
   description |-> OrElse(Get(m, "description"), JsString(""))]

\* The LaborItem built from entry l of parsedEstimation.labor.
LaborItem(l, id) ==
  [id |-> id,
   role |-> OrElse(Get(l, "role"), JsString("Labor")),
   costPerHour |-> OrElse(Get(l, "costPerHour"), JsNumber(0)),
   hours |-> Get(l, "hours"),
   description |-> OrElse(Get(l, "description"), JsString(""))]

MapDone(items, uuid) ==
  [threw |-> FALSE, error |-> NonError, value |-> items, uuid |-> uuid]
MapThrew(err, uuid) ==
  [threw |-> TRUE, error |-> err, value |-> <<>>, uuid |-> uuid]

\* m.materialId || crypto.randomUUID(): the generator is called only when the
\* entry's materialId is falsy.
materialIdOf(m, uuid) == OrElse(Get(m, "materialId"), randomUUID(uuid))
laborIdOf(l, uuid) == OrElse(Get(l, "laborId"), randomUUID(uuid))

\* parsedEstimation.materials.map(m => ...) from entry i on, `acc` the entries
\* mapped so far and `uuid` the number of randomUUID calls made so far.
RECURSIVE MapMaterials(_, _, _, _)
MapMaterials(items, i, uuid, acc) ==
  IF i > Len(items) THEN MapDone(acc, uuid)
  ELSE IF items[i].t \in {"null", "undefined"}
    THEN MapThrew(CannotRead(items[i], "materialId"), uuid)
  ELSE MapMaterials(items, i + 1,
         IF Falsy(Get(items[i], "materialId")) THEN uuid + 1 ELSE uuid,
         Append(acc, Material(items[i], materialIdOf(items[i], uuid))))

RECURSIVE MapLabor(_, _, _, _)
MapLabor(items, i, uuid, acc) ==
  IF i > Len(items) THEN MapDone(acc, uuid)
  ELSE IF items[i].t \in {"null", "undefined"}
    THEN MapThrew(CannotRead(items[i], "laborId"), uuid)
  ELSE MapLabor(items, i + 1,
         IF Falsy(Get(items[i], "laborId")) THEN uuid + 1 ELSE uuid,
         Append(acc, LaborItem(items[i], laborIdOf(items[i], uuid))))

\* v.map(f) for the property k of parsedEstimation: a TypeError unless v is an
\* array.
MapCall(v, k, uuid) ==
  IF v.t \in {"null", "undefined"} THEN MapThrew(CannotRead(v, "map"), uuid)
  ELSE IF v.t # "array" THEN MapThrew(NotAFunction(k), uuid)
  ELSE IF k = "materials" THEN MapMaterials(v.items, 1, uuid, <<>>)
  ELSE MapLabor(v.items, 1, uuid, <<>>)

\* const transformedEstimation: ProjectDetails = {...}, its fields evaluated in
\* the order written; `uuid` counts the randomUUID calls made before and after.
transformedEstimation(parsedEstimation, uuid) ==
  LET mats == MapCall(Get(parsedEstimation, "materials"), "materials", uuid)
      labs == MapCall(Get(parsedEstimation, "labor"), "labor", mats.uuid)
  IN  IF parsedEstimation.t \in {"null", "undefined"}
        THEN MapThrew(CannotRead(parsedEstimation, "projectName"), uuid)
      ELSE IF mats.threw THEN mats
      ELSE IF labs.threw THEN labs
      ELSE [threw |-> FALSE, error |-> NonError, uuid |-> labs.uuid,
            value |-> [projectName |-> Get(parsedEstimation, "projectName"),
                       length |-> Get(parsedEstimation, "length"),
                       width |-> Get(parsedEstimation, "width"),
                       height |-> Get(parsedEstimation, "height"),
                       materials |-> mats.value,
                       labor |-> labs.value]]

----------------------------------------------------------------------------
(* What the generative service can answer *)

Q == "\""

\* A reply with no "{" and "}" at all, and one whose only "}" precedes its "{".
TextNoBraces == <<"Sorry", ",", " ", "no estimate">>
TextCloseThenOpen == <<"}", " ", "{">>

\* A span that is no JSON: a string that never ends.
TextUnterminated == <<"{", Q, "projectName", Q, ":", Q, "Shed", "}">>

\* A string holding "//" and a doubled trailing comma: valid before the repair,
\* respectively not repaired.
TextUrl ==
  <<"{", Q, "projectName", Q, ":", Q, "http", ":", "/", "/", "shed", Q, "}">>
TextTwoCommas ==
  <<"{", Q, "materials", Q, ":", "[", "]", ",", Q, "labor", Q, ":", "[", "]",
    ",", ",", "}">>

\* Prose around a complete estimate: one material and one labor item, no ids.
TextShed ==
  <<"Here you go", ":", " ",
    "{", Q, "projectName", Q, ":", Q, "Shed", Q, ",",
    Q, "length", Q, ":", "3", ",", Q, "width", Q, ":", "2", ",",
    Q, "materials", Q, ":", "[",
    "{", Q, "name", Q, ":", Q, "Plywood", Q, ",", Q, "unit", Q, ":", Q, "sheet", Q,
    ",", Q, "costPerUnit", Q, ":", "25", ",", Q, "quantity", Q, ":", "10", "}",
    "]", ",",
    Q, "labor", Q, ":", "[",
    "{", Q, "role", Q, ":", Q, "Carpenter", Q, ",", Q, "costPerHour", Q, ":", "40",
    ",", Q, "hours", Q, ":", "8", "}",
    "]", "}", " ", "Good luck">>

\* An estimate with a line comment and trailing commas, fields missing or falsy.
TextCommented ==
  <<"{", Q, "materials", Q, ":", " ", "[", "{", Q, "quantity", Q, ":", "5", ",",
    " ", "/", "/", " ", "guess", "\n", Q, "name", Q, ":", Q, Q, ",", "}", ",", " ",
    "]", ",", "\n",
    Q, "labor", Q, ":", "[", "]", ",", "\n", "}">>

\* Estimates the mapping step cannot map.
TextNoMaterials == <<"{", Q, "projectName", Q, ":", Q, "Shed", Q, "}">>
TextNoLabor ==
  <<"{", Q, "materials", Q, ":", "[", "{", Q, "quantity", Q, ":", "5", "}", "]",
    ",", Q, "labor", Q, ":", "null", "}">>
TextMaterialsNoArray ==
  <<"{", Q, "materials", Q, ":", Q, "none", Q, ",", Q, "labor", Q, ":", "[", "]",
    "}">>
TextNullEntry ==
  <<"{", Q, "materials", Q, ":", "[", "{", "}", ",", "null", "]", ",",
    Q, "labor", Q, ":", "[", "]", "}">>

\* Two materials that carry the same materialId.
TextSameIds ==
  <<"{", Q, "materials", Q, ":", "[",
    "{", Q, "materialId", Q, ":", Q, "m1", Q, "}", ",",
    "{", Q, "materialId", Q, ":", Q, "m1", Q, "}", "]", ",",
    Q, "labor", Q, ":", "[", "]", "}">>

\* The replies the service gives the component.
ModelTexts ==
  {TextNoBraces, TextCloseThenOpen, TextUnterminated, TextShed, TextCommented,
   TextNoMaterials, TextNullEntry}

\* What a rejected service call, response.text() or the caller's callback can
\* throw.
Throwables == {Error("failed"), Error(""), NonError}

\* The outcome of `await model.generateContent(prompt)` and of
\* result.response.text().
ServiceResults ==
  [kind : {"text"}, text : ModelTexts, thrown : {NonError}]
  \cup [kind : {"rejected", "blocked"}, text : {<<>>}, thrown : Throwables]

\* What the caller's onEstimationComplete does when called.
CallbackBehaviours ==
  [throws : {FALSE}, thrown : {NonError}] \cup [throws : {TRUE}, thrown : Throwables]

----------------------------------------------------------------------------
(* Replies in the shape the prompt asks for (lines 51 to 76), written out as
   text, for the normalization steps taken on their own *)

\* A field left out of an entry.
Absent == JsUndefined

Field(k, v) == IF v = Absent THEN <<>> ELSE (k :> v)

\* The order in which a reply writes the keys it has.
KeyOrder ==
  <<"projectName", "length", "width", "height", "materialId", "laborId", "name",
    "role", "unit", "costPerUnit", "costPerHour", "quantity", "hours",
    "description", "materials", "labor">>

RECURSIVE Stringify(_)
RECURSIVE StringifyAll(_, _)

\* The JSON text of value v.
Stringify(v) ==
  IF v.t = "number" THEN <<ToString(v.n)>>
  ELSE IF v.t = "string" THEN (IF v.s = "" THEN <<Q, Q>> ELSE <<Q, v.s, Q>>)
  ELSE IF v.t = "boolean" THEN (IF v.b THEN <<"true">> ELSE <<"false">>)
  ELSE IF v.t = "array" THEN <<"[">> \o StringifyAll(v.items, 1) \o <<"]">>
  ELSE IF v.t = "object" THEN
    LET keys == SelectSeq(KeyOrder, LAMBDA k : k \in DOMAIN v.props)
        members == [i \in 1..Len(keys) |->
                      [t |-> "member", key |-> keys[i], val |-> v.props[keys[i]]]]
    IN  <<"{">> \o StringifyAll(members, 1) \o <<"}">>
  ELSE <<"null">>

\* The texts of items i.. of a list, commas between them.
StringifyAll(items, i) ==
  IF i > Len(items) THEN <<>>
  ELSE (IF items[i].t = "member"
          THEN <<Q, items[i].key, Q, ":">> \o Stringify(items[i].val)
          ELSE Stringify(items[i]))
       \o (IF i < Len(items) THEN <<",">> ELSE <<>>)
       \o StringifyAll(items, i + 1)

\* The text t of an object with prose before it and, before its last "}", a
\* trailing comma and a line comment.
Decorated(t) ==
  <<"Here you go", ":", "\n">> \o SubSeq(t, 1, Len(t) - 1)
  \o <<",", " ", "/", "/", " ", "estimate", "\n", "}">>

\* Material entries: every field left out, present, and present but falsy.
MaterialEntries ==
  {JsObject(Field("name", n) @@ Field("unit", u) @@ Field("costPerUnit", c)
            @@ Field("quantity", q) @@ Field("description", d)
            @@ Field("materialId", m)) :
     n \in {Absent, JsString(""), JsString("Plywood"), JsNull},
     u \in {Absent, JsString("sheet")},
     c \in {Absent, JsNumber(0), JsNumber(25)},
     q \in {Absent, JsNumber(10)},
     d \in {Absent, JsString("thick")},
     m \in {Absent, JsString("m1")}}

LaborEntries ==
  {JsObject(Field("role", r) @@ Field("costPerHour", c) @@ Field("hours", h)
            @@ Field("description", d) @@ Field("laborId", l)) :
     r \in {Absent, JsString(""), JsString("Carpenter")},
     c \in {Absent, JsNumber(0), JsNumber(40)},
     h \in {Absent, JsNumber(8)},
     d \in {Absent, JsString("framing")},
     l \in {Absent, JsString("l1")}}

\* The entries that lists of several are made of: with and without an id.
IdMaterials ==
  {JsObject(<<>>), JsObject(Field("materialId", JsString("m1"))),
   JsObject(Field("materialId", JsString("m2"))),
   JsObject(Field("quantity", JsNumber(5)))}
IdLabor ==
  {JsObject(<<>>), JsObject(Field("laborId", JsString("l1"))),
   JsObject(Field("hours", JsNumber(8)))}

ListsOf(S, n) == UNION {[1..k -> S] : k \in 0..n}

Estimate(name, materials, labor) ==
  JsObject(Field("projectName", name) @@ Field("materials", JsArray(materials))
           @@ Field("labor", JsArray(labor)))

----------------------------------------------------------------------------
(* Bounds *)

\* The longest description typed, the analyzeProject runs that can be in flight
\* together, the randomUUID calls of one behaviour, the longest list of entries
\* of a generated reply, and the longest text between the braces of a candidate
\* tried for the repair.
MaxDescLen == 1
MaxRuns == 2
MaxUuid == 4
MaxEntries == 2
MaxRepairLen == 3

DescChars == {" ", "a"}
Descriptions == UNION {[1..n -> DescChars] : n \in 0..MaxDescLen}

\* The replies written out: one entry of every kind, and lists of up to
\* MaxEntries entries.
EstimateObjects ==
  {Estimate(JsString("Shed"), <<m>>, <<>>) : m \in MaterialEntries}
  \cup {Estimate(Absent, <<>>, <<l>>) : l \in LaborEntries}
  \cup {Estimate(Absent, ms, ls) :
          ms \in ListsOf(IdMaterials, MaxEntries), ls \in ListsOf(IdLabor, 1)}
  \cup {Estimate(Absent, <<>>, ls) : ls \in ListsOf(IdLabor, MaxEntries)}

\* Candidates for the repair: every text of up to MaxRepairLen characters
\* between braces, and the example {"a": 2, // comment\n "b": 3,}.
RepairChars == {",", " ", "\n", "/", "}", "]", "a"}
RepairTexts ==
  {<<"{">> \o w \o <<"}">> :
     w \in UNION {[1..n -> RepairChars] : n \in 0..MaxRepairLen}}
TextExample ==
  <<"{", Q, "a", Q, ":", " ", "2", ",", " ", "/", "/", " ", "comment", "\n", " ",
    Q, "b", Q, ":", " ", "3", ",", "}">>
TextTwoComments ==
  <<"{", "/", "/", "a", "\n", Q, "a", Q, ":", "2", "/", "/", "b", "\n", "}">>

NormalizeInputs ==
  {Stringify(o) : o \in EstimateObjects}
  \cup {Decorated(Stringify(o)) : o \in EstimateObjects}
  \cup RepairTexts
  \cup ModelTexts
  \cup {TextUrl, TextTwoCommas, TextNoLabor, TextMaterialsNoArray, TextSameIds,
        TextExample, TextTwoComments}

----------------------------------------------------------------------------
(* The component *)

VARIABLES
  projectDescription,  \* useState('')
  isLoading,           \* useState(false)
  error,               \* useState('')
  estimation,          \* useState<ProjectDetails | null>(null)
  runs,                \* the analyzeProject invocations and where each stands
  uuidCount,           \* the crypto.randomUUID() calls made so far
  lastRun,             \* the run that ended last: its inputs and its callback calls
  normalizer           \* extraction, repair, parse and mapping of one text, step by step

component ==
  <<projectDescription, isLoading, error, estimation, runs, uuidCount, lastRun>>
vars == <<component, normalizer>>

FallbackMessage == "Failed to analyze project. Please try again."

Idle == [pc |-> "idle", text |-> <<>>, overlapped |-> FALSE]
NoRun ==
  [run |-> 0, result |-> [kind |-> "none", text |-> <<>>, thrown |-> NonError],
   callback |-> [throws |-> FALSE, thrown |-> NonError], uuid |-> 0,
   calls |-> <<>>, overlapped |-> FALSE]

InFlight == {r \in 1..MaxRuns : runs[r].pc # "idle"}

\* String.prototype.trim()
RECURSIVE TrimStart(_)
TrimStart(s) ==
  IF s # <<>> /\ Head(s) \in Whitespace THEN TrimStart(Tail(s)) ELSE s
RECURSIVE TrimEnd(_)
TrimEnd(s) ==
  IF s # <<>> /\ s[Len(s)] \in Whitespace
  THEN TrimEnd(SubSeq(s, 1, Len(s) - 1)) ELSE s
trim(s) == TrimEnd(TrimStart(s))

\* The button disabled on an empty description only.
disabledWhenEmpty == trim(projectDescription) = <<>>

\* disabled={isLoading || !projectDescription.trim()}
disabled == isLoading \/ trim(projectDescription) = <<>>

\* The handler with the fallback message for whatever was thrown.
catchMessageGeneric(err) == FallbackMessage

\* catch (err): the message setError receives.
catchMessage(err) == IF err.isError THEN err.message ELSE FallbackMessage

\* The randomUUID calls the mapping of `text` makes.
UuidCalls(text) ==
  LET p == extractAndParseJSON(text)
  IN  IF p.threw THEN 0 ELSE transformedEstimation(p.value, 0).uuid

\* The try body with the call of onEstimationComplete left out.
tryBodyNoCallback(text, uuid, cb) ==
  LET p == extractAndParseJSON(text)
      t == transformedEstimation(p.value, uuid)
  IN  IF p.threw
        THEN [set |-> FALSE, estimation |-> JsNull, threw |-> TRUE,
              thrown |-> p.error, uuid |-> uuid, calls |-> <<>>]
      ELSE IF t.threw
        THEN [set |-> FALSE, estimation |-> JsNull, threw |-> TRUE,
              thrown |-> t.error, uuid |-> t.uuid, calls |-> <<>>]
      ELSE [set |-> TRUE, estimation |-> t.value, threw |-> FALSE,
            thrown |-> NonError, uuid |-> t.uuid, calls |-> <<>>]

\* Lines 89 to 115 for the text awaited, with `uuid` randomUUID calls made before
\* and a callback behaving as `cb`: whether setEstimation was reached and with
\* what, what was thrown, and the arguments of the callback's calls.
tryBody(text, uuid, cb) ==
  LET p == extractAndParseJSON(text)
      t == transformedEstimation(p.value, uuid)
  IN  IF p.threw
        THEN [set |-> FALSE, estimation |-> JsNull, threw |-> TRUE,
              thrown |-> p.error, uuid |-> uuid, calls |-> <<>>]
      ELSE IF t.threw
        THEN [set |-> FALSE, estimation |-> JsNull, threw |-> TRUE,
              thrown |-> t.error, uuid |-> t.uuid, calls |-> <<>>]
      ELSE [set |-> TRUE, estimation |-> t.value, threw |-> cb.throws,
            thrown |-> cb.thrown, uuid |-> t.uuid, calls |-> <<t.value>>]

NormalizerOff ==
  [stage |-> "off", str |-> <<>>, candidate |-> <<>>, stripped |-> <<>>,
   braced |-> <<>>, cleaned |-> <<>>, parsed |-> JsUndefined,
   mapped |-> MapDone(<<>>, 0)]

Init ==
  /\ projectDescription = <<>>
  /\ isLoading = FALSE
  /\ error = ""
  /\ estimation = JsNull
  /\ runs = [r \in 1..MaxRuns |-> Idle]
  /\ uuidCount = 0
  /\ lastRun = NoRun
  /\ normalizer = NormalizerOff

\* onChange={(e) => setProjectDescription(e.target.value)}
setProjectDescription ==
  /\ \E d \in Descriptions : projectDescription' = d
  /\ UNCHANGED <<isLoading, error, estimation, runs, uuidCount, lastRun, normalizer>>

\* analyzeProject up to its first await (lines 34 to 85), as run r.
Start(r) ==
  /\ isLoading' = TRUE
  /\ error' = ""
  /\ estimation' = JsNull
  /\ runs' = [q \in 1..MaxRuns |->
               IF q = r THEN [pc |-> "awaitGenerate", text |-> <<>>,
                              overlapped |-> InFlight # {}]
               ELSE IF runs[q].pc # "idle" THEN [runs[q] EXCEPT !.overlapped = TRUE]
               ELSE runs[q]]
  /\ UNCHANGED <<projectDescription, uuidCount, lastRun, normalizer>>

FreeSlot == CHOOSE r \in 1..MaxRuns : runs[r].pc = "idle" /\ \A q \in 1..(r - 1) : runs[q].pc # "idle"

\* onClick={analyzeProject} of the button, which a disabled button does not fire.
ClickAnalyze ==
  /\ ~disabled
  /\ \E r \in 1..MaxRuns : runs[r].pc = "idle"
  /\ Start(FreeSlot)

\* analyzeProject called whatever the button's state: the function itself tests
\* nothing before it starts.
CallAnalyzeProject ==
  /\ \E r \in 1..MaxRuns : runs[r].pc = "idle"
  /\ Start(FreeSlot)

NoCallback == [throws |-> FALSE, thrown |-> NonError]

\* The end of a run with setIsLoading(false) as the last statement of the try
\* block instead of a finally block.
FinishNoFinally(r, o, result, cb) ==
  /\ estimation' = IF o.set THEN o.estimation ELSE estimation
  /\ error' = IF o.threw THEN catchMessage(o.thrown) ELSE error
  /\ isLoading' = IF o.threw THEN isLoading ELSE FALSE
  /\ uuidCount' = o.uuid
  /\ runs' = [runs EXCEPT ![r] = Idle]
  /\ lastRun' = [run |-> r, result |-> result, uuid |-> uuidCount,
                 callback |-> IF o.calls = <<>> THEN NoCallback ELSE cb,
                 calls |-> o.calls, overlapped |-> runs[r].overlapped]
  /\ UNCHANGED <<projectDescription, normalizer>>

\* The end of run r with outcome o: setEstimation if the try body reached it,
\* setError if it threw (catch), setIsLoading(false) (finally).
Finish(r, o, result, cb) ==
  /\ estimation' = IF o.set THEN o.estimation ELSE estimation
  /\ error' = IF o.threw THEN catchMessage(o.thrown) ELSE error
  /\ isLoading' = FALSE
  /\ uuidCount' = o.uuid
  /\ runs' = [runs EXCEPT ![r] = Idle]
  /\ lastRun' = [run |-> r, result |-> result, uuid |-> uuidCount,
                 callback |-> IF o.calls = <<>> THEN NoCallback ELSE cb,
                 calls |-> o.calls, overlapped |-> runs[r].overlapped]
  /\ UNCHANGED <<projectDescription, normalizer>>

Threw(e) ==
  [set |-> FALSE, estimation |-> JsNull, threw |-> TRUE, thrown |-> e,
   uuid |-> uuidCount, calls |-> <<>>]

\* The randomUUID calls still owed to the runs that hold a text.
UuidOwed ==
  LET RECURSIVE Sum(_)
      Sum(S) == IF S = {} THEN 0
                ELSE LET r == CHOOSE q \in S : TRUE
                     IN  UuidCalls(runs[r].text) + Sum(S \ {r})
  IN  Sum({r \in 1..MaxRuns : runs[r].pc = "awaitText"})

\* The service call of run r rejects: `await model.generateContent(prompt)` throws.
GenerateRejects(r) ==
  /\ runs[r].pc = "awaitGenerate"
  /\ \E res \in ServiceResults :
       /\ res.kind = "rejected"
       /\ Finish(r, Threw(res.thrown), res, NoCallback)

\* The service call of run r resolves, and result.response.text() throws or gives
\* the text that line 86 awaits.
GenerateResolves(r) ==
  /\ runs[r].pc = "awaitGenerate"
  /\ \E res \in ServiceResults :
       \/ /\ res.kind = "blocked"
          /\ Finish(r, Threw(res.thrown), res, NoCallback)
       \/ /\ res.kind = "text"
          /\ uuidCount + UuidOwed + UuidCalls(res.text) <= MaxUuid
          /\ runs' = [runs EXCEPT ![r].pc = "awaitText", ![r].text = res.text]
          /\ UNCHANGED <<projectDescription, isLoading, error, estimation,
                         uuidCount, lastRun, normalizer>>

\* Run r resumes with its text: lines 89 to 121.
Resume(r) ==
  /\ runs[r].pc = "awaitText"
  /\ \E cb \in CallbackBehaviours :
       Finish(r, tryBody(runs[r].text, uuidCount, cb),
              [kind |-> "text", text |-> runs[r].text, thrown |-> NonError], cb)

Settle ==
  \E r \in 1..MaxRuns : GenerateRejects(r) \/ GenerateResolves(r) \/ Resume(r)

Next == setProjectDescription \/ ClickAnalyze \/ Settle

\* The component as rendered: runs start at the button.
Spec == Init /\ [][Next]_vars

NextDirect == setProjectDescription \/ CallAnalyzeProject \/ Settle

\* The handler called with no regard to the button.
SpecDirect == Init /\ [][NextDirect]_vars

----------------------------------------------------------------------------
(* extractAndParseJSON and the mapping step, one statement at a time *)

InitNormalize ==
  /\ projectDescription = <<>>
  /\ isLoading = FALSE
  /\ error = ""
  /\ estimation = JsNull
  /\ runs = [r \in 1..MaxRuns |-> Idle]
  /\ uuidCount = 0
  /\ lastRun = NoRun
  /\ \E t \in NormalizeInputs : normalizer = [NormalizerOff EXCEPT !.stage = "str", !.str = t]

\* const jsonMatch = str.match(/{[\s\S]*}/); if (!jsonMatch) throw ...
Match ==
  /\ normalizer.stage = "str"
  /\ normalizer' =
       IF jsonMatch(normalizer.str) = <<>>
       THEN [normalizer EXCEPT !.stage = "notFound"]
       ELSE [normalizer EXCEPT !.stage = "matched",
                               !.candidate = jsonMatch(normalizer.str)]
  /\ UNCHANGED component

\* .replace(/\/\/.*$/gm, '')
Strip ==
  /\ normalizer.stage = "matched"
  /\ normalizer' = [normalizer EXCEPT !.stage = "stripped",
                                      !.stripped = StripComments(normalizer.candidate)]
  /\ UNCHANGED component

\* .replace(/,\s*}/g, '}')
Brace ==
  /\ normalizer.stage = "stripped"
  /\ normalizer' = [normalizer EXCEPT !.stage = "braced",
                                      !.braced = DropCommaBrace(normalizer.stripped)]
  /\ UNCHANGED component

\* .replace(/,\s*]/g, ']')
Bracket ==
  /\ normalizer.stage = "braced"
  /\ normalizer' = [normalizer EXCEPT !.stage = "cleaned",
                                      !.cleaned = DropCommaBracket(normalizer.braced)]
  /\ UNCHANGED component

\* try { return JSON.parse(cleaned) } catch (err) { ...; return null }
Parse ==
  /\ normalizer.stage = "cleaned"
  /\ normalizer' =
       [normalizer EXCEPT !.stage = "parsed",
                          !.parsed = IF JSONparse(normalizer.cleaned).threw THEN JsNull
                                     ELSE JSONparse(normalizer.cleaned).value]
  /\ UNCHANGED component

\* const transformedEstimation: ProjectDetails = {...}
Map ==
  /\ normalizer.stage = "parsed"
  /\ normalizer' = [normalizer EXCEPT !.stage = "mapped",
                                      !.mapped = transformedEstimation(normalizer.parsed, 0)]
  /\ UNCHANGED component

NextNormalize == Match \/ Strip \/ Brace \/ Bracket \/ Parse \/ Map

\* The normalization of one reply, statement by statement.
SpecNormalize == InitNormalize /\ [][NextNormalize]_vars

----------------------------------------------------------------------------
(* The claims *)

\* The last run has ended and no run has started since.
RunOver == lastRun.run # 0 /\ InFlight = {}

\* The text holds a "{" with a "}" somewhere after it.
HasSpan(text) ==
  \E i \in 1..Len(text) : \E j \in (i + 1)..Len(text) :
    text[i] = "{" /\ text[j] = "}"

\* What the mapping step makes of the text, after `uuid` randomUUID calls.
Mapped(text, uuid) == transformedEstimation(extractAndParseJSON(text).value, uuid)

\* The run got a text which was extracted, parsed and mapped.
RunSucceeds(run) ==
  /\ run.result.kind = "text"
  /\ ~extractAndParseJSON(run.result.text).threw
  /\ ~Mapped(run.result.text, run.uuid).threw

\* C1: a run that succeeds (the service replies, a JSON object is extracted,
\* parsed and mapped) calls onEstimationComplete exactly once, with the
\* normalized record, which is also the estimate displayed when the run ends; a
\* run that fails at any step never calls it.
C1_CallbackOncePerSuccess ==
  lastRun.run # 0 =>
    IF RunSucceeds(lastRun)
    THEN /\ lastRun.calls = <<Mapped(lastRun.result.text, lastRun.uuid).value>>
         /\ InFlight = {} => estimation = lastRun.calls[1]
    ELSE lastRun.calls = <<>>

C1_Witness ==
  /\ RunOver
  /\ RunSucceeds(lastRun)
  /\ Len(lastRun.calls) = 1
  /\ estimation = lastRun.calls[1]
  /\ Len(estimation.materials) = 1

\* C2: in every state, the estimate is not non-null while the error string is
\* non-empty.
C2_NoPartialResults == ~(estimation # JsNull /\ error # "")

\* C3: a run sets isLoading when it starts, every end of a run (success, or any
\* failure) sets isLoading to false, and with no run in flight isLoading is false.
C3_LoadingCleared ==
  /\ [](InFlight = {} => ~isLoading)
  /\ [][/\ (\E r \in 1..MaxRuns : runs[r].pc = "idle" /\ runs'[r].pc # "idle")
             => isLoading'
        /\ (\E r \in 1..MaxRuns : runs[r].pc # "idle" /\ runs'[r].pc = "idle")
             => ~isLoading']_vars

C3_Witness ==
  /\ RunOver
  /\ lastRun.result.kind = "rejected"
  /\ error # ""
  /\ ~isLoading

\* The last run got a text with a {...} span that is no JSON after the repair.
SpanNotJson ==
  /\ lastRun.result.kind = "text"
  /\ HasSpan(lastRun.result.text)
  /\ JSONparse(cleaned(jsonMatch(lastRun.result.text))).threw

\* C4 as claimed: after a run whose text holds a {...} span that is no JSON after
\* the repair, extractAndParseJSON returned null, and the error string is the
\* fallback message, with no estimate and no callback call.
C4_FallbackShown ==
  (RunOver /\ SpanNotJson) =>
    /\ ~extractAndParseJSON(lastRun.result.text).threw
    /\ extractAndParseJSON(lastRun.result.text).value = JsNull
    /\ error = "Failed to analyze project. Please try again."
    /\ estimation = JsNull
    /\ lastRun.calls = <<>>

\* C4, amended: after such a run extractAndParseJSON returned null without
\* raising, the mapping step raised a TypeError on reading projectName of null,
\* and the error string is that TypeError's message, which is neither empty nor
\* the fallback message; no estimate is set and the callback is not called.
C4_TypeErrorShown ==
  (RunOver /\ SpanNotJson) =>
    /\ ~extractAndParseJSON(lastRun.result.text).threw
    /\ extractAndParseJSON(lastRun.result.text).value = JsNull
    /\ transformedEstimation(JsNull, lastRun.uuid).threw
    /\ transformedEstimation(JsNull, lastRun.uuid).error.isError
    /\ error = "Cannot read properties of null (reading 'projectName')"
    /\ error # "Failed to analyze project. Please try again."
    /\ estimation = JsNull
    /\ lastRun.calls = <<>>

C4_Witness ==
  /\ RunOver
  /\ SpanNotJson
  /\ lastRun.result.text = TextUnterminated
  /\ error # ""

\* C5: after a run whose text holds no {...} span at all, the error string is
\* "JSON object not found.", isLoading is false, the estimate is null and the
\* callback was not called.
C5_NotFoundShown ==
  (RunOver /\ lastRun.result.kind = "text" /\ ~HasSpan(lastRun.result.text)) =>
    /\ extractAndParseJSON(lastRun.result.text).threw
    /\ error = "JSON object not found."
    /\ ~isLoading
    /\ estimation = JsNull
    /\ lastRun.calls = <<>>

C5_Witness ==
  /\ RunOver
  /\ lastRun.result.kind = "text"
  /\ ~HasSpan(lastRun.result.text)
  /\ error = "JSON object not found."

\* C6: the button is enabled only when the description is not empty and no
\* request is in flight, and at most one request is in flight.
C6_OneRequestInFlight ==
  /\ ~disabled => projectDescription # <<>> /\ InFlight = {}
  /\ Cardinality(InFlight) <= 1

C6_Witness ==
  /\ Cardinality(InFlight) = 1
  /\ trim(projectDescription) # <<>>
  /\ disabled

\* The mapping step has made a record of the parsed reply.
MappedOk == normalizer.stage = "mapped" /\ ~normalizer.mapped.threw

Distinct(items) ==
  \A i, j \in 1..Len(items) : i # j => items[i].id # items[j].id

\* C7: in every record the mapping step makes, the ids of the materials are
\* pairwise distinct and the ids of the labor items are pairwise distinct.
C7_DistinctIds ==
  MappedOk =>
    /\ Distinct(normalizer.mapped.value.materials)
    /\ Distinct(normalizer.mapped.value.labor)

Has(entry, k) == entry.t = "object" /\ k \in DOMAIN entry.props
Truthy(v) ==
  v \notin {JsUndefined, JsNull, JsNumber(0), JsString(""), JsBoolean(FALSE)}

\* The field is copied when the entry has it, else it is the default.
CopiedIfPresent(entry, k, default, out) ==
  IF Has(entry, k) THEN out = entry.props[k] ELSE out = default

\* The field is copied when the entry has it with a truthy value, else it is the
\* default.
CopiedIfTruthy(entry, k, default, out) ==
  IF Has(entry, k) /\ Truthy(entry.props[k]) THEN out = entry.props[k]
  ELSE out = default

\* The field is copied, undefined when the entry lacks it.
Verbatim(entry, k, out) ==
  IF Has(entry, k) THEN out = entry.props[k] ELSE out = JsUndefined

ParsedMaterials == normalizer.parsed.props["materials"].items
ParsedLabor == normalizer.parsed.props["labor"].items

\* C8 as claimed: every mapped entry copies each field the parsed entry has and
\* takes the default for each it lacks, quantity and hours copied verbatim; the
\* lists keep their order and length.
C8_DefaultsWhenAbsent ==
  MappedOk =>
    LET ms == ParsedMaterials
        ls == ParsedLabor
        om == normalizer.mapped.value.materials
        ol == normalizer.mapped.value.labor
    IN  /\ Len(om) = Len(ms)
        /\ Len(ol) = Len(ls)
        /\ \A i \in 1..Len(ms) :
             /\ CopiedIfPresent(ms[i], "name", JsString("Material"), om[i].name)
             /\ CopiedIfPresent(ms[i], "unit", JsString("unit"), om[i].unit)
             /\ CopiedIfPresent(ms[i], "costPerUnit", JsNumber(0), om[i].costPerUnit)
             /\ CopiedIfPresent(ms[i], "description", JsString(""), om[i].description)
             /\ Verbatim(ms[i], "quantity", om[i].quantity)
        /\ \A i \in 1..Len(ls) :
             /\ CopiedIfPresent(ls[i], "role", JsString("Labor"), ol[i].role)
             /\ CopiedIfPresent(ls[i], "costPerHour", JsNumber(0), ol[i].costPerHour)
             /\ CopiedIfPresent(ls[i], "description", JsString(""), ol[i].description)
             /\ Verbatim(ls[i], "hours", ol[i].hours)

\* C8, amended: every mapped entry copies each field the parsed entry has with a
\* truthy value and takes the default ("Material", "unit", 0, "" and "Labor", 0,
\* "") for each field it lacks or has with a falsy value (null, 0, "", false);
\* quantity and hours are copied verbatim; the lists keep their order and length.
C8_DefaultsWhenFalsy ==
  MappedOk =>
    LET ms == ParsedMaterials
        ls == ParsedLabor
        om == normalizer.mapped.value.materials
        ol == normalizer.mapped.value.labor
    IN  /\ Len(om) = Len(ms)
        /\ Len(ol) = Len(ls)
        /\ \A i \in 1..Len(ms) :
             /\ CopiedIfTruthy(ms[i], "name", JsString("Material"), om[i].name)
             /\ CopiedIfTruthy(ms[i], "unit", JsString("unit"), om[i].unit)
             /\ CopiedIfTruthy(ms[i], "costPerUnit", JsNumber(0), om[i].costPerUnit)
             /\ CopiedIfTruthy(ms[i], "description", JsString(""), om[i].description)
             /\ Verbatim(ms[i], "quantity", om[i].quantity)
        /\ \A i \in 1..Len(ls) :
             /\ CopiedIfTruthy(ls[i], "role", JsString("Labor"), ol[i].role)
             /\ CopiedIfTruthy(ls[i], "costPerHour", JsNumber(0), ol[i].costPerHour)
             /\ CopiedIfTruthy(ls[i], "description", JsString(""), ol[i].description)
             /\ Verbatim(ls[i], "hours", ol[i].hours)

C8_Witness ==
  /\ MappedOk
  /\ Len(ParsedMaterials) = 1
  /\ Has(ParsedMaterials[1], "name")
  /\ ParsedMaterials[1].props["name"] = JsString("")
  /\ Has(ParsedMaterials[1], "unit")
  /\ ~Has(ParsedMaterials[1], "costPerUnit")
  /\ Has(ParsedMaterials[1], "quantity")
  /\ normalizer.mapped.value.materials[1].name = JsString("Material")
  /\ normalizer.mapped.value.materials[1].unit = JsString("sheet")

\* What the UI shows after the run `run` when no other run interferes: the
\* estimate and the error string.
Alone(run) ==
  LET o == tryBody(run.result.text, run.uuid, run.callback)
  IN  IF run.result.kind = "text"
      THEN [estimation |-> IF o.set THEN o.estimation ELSE JsNull,
            error |-> IF o.threw THEN catchMessage(o.thrown) ELSE ""]
      ELSE [estimation |-> JsNull, error |-> catchMessage(run.result.thrown)]

\* C9: when two runs overlap and both have ended, the estimate and the error
\* string are those the run that ended last produces on its own.
C9_LaterRunOverwrites ==
  (RunOver /\ lastRun.overlapped) =>
    /\ estimation = Alone(lastRun).estimation
    /\ error = Alone(lastRun).error

\* Index i of s lies in a line comment: a "//" at or before it on its line.
InLineComment(s, i) ==
  \E j \in 1..i :
    /\ j < Len(s) /\ s[j] = "/" /\ s[j + 1] = "/"
    /\ \A k \in j..i : s[k] \notin LineTerminators

\* Index i of s is a comma, or whitespace after a comma, with only whitespace
\* between that comma and the closer that follows.
BeforeCloser(s, i, closer) ==
  \E j \in 1..i : \E e \in (i + 1)..Len(s) :
    /\ s[j] = "," /\ s[e] = closer
    /\ \A k \in (j + 1)..(e - 1) : s[k] \in Whitespace

\* s without the characters at the indices in D.
Without(s, D) ==
  LET idx == SelectSeq([i \in 1..Len(s) |-> i], LAMBDA i : i \notin D)
  IN  [k \in 1..Len(idx) |-> s[idx[k]]]

WithoutComments(s) == Without(s, {i \in 1..Len(s) : InLineComment(s, i)})
WithoutCommas(s, closer) ==
  Without(s, {i \in 1..Len(s) : BeforeCloser(s, i, closer)})

HasLineComment(s) == \E i \in 1..(Len(s) - 1) : s[i] = "/" /\ s[i + 1] = "/"
HasTrailingComma(s) ==
  \E i \in 1..Len(s) :
    s[i] = "," /\ (BeforeCloser(s, i, "}") \/ BeforeCloser(s, i, "]"))

\* s has a comma followed, after optional whitespace, by a comma that a closer
\* follows after optional whitespace.
HasCommaRun(s) ==
  \E i \in 1..Len(s) : \E j \in (i + 1)..Len(s) :
    /\ s[i] = "," /\ s[j] = ","
    /\ \A k \in (i + 1)..(j - 1) : s[k] \in Whitespace
    /\ (BeforeCloser(s, j, "}") \/ BeforeCloser(s, j, "]"))

\* The repaired text is the candidate less its line comments, then less the
\* commas (and the whitespace after them) in front of "}", then of "]".
KeptInOrder ==
  normalizer.cleaned =
    WithoutCommas(WithoutCommas(WithoutComments(normalizer.candidate), "}"), "]")

\* C10 as claimed: the repaired text holds no line comment and no comma followed,
\* after optional whitespace, by "}" or "]", and every other character is kept
\* unchanged and in order.
C10_NoTrailingCommaLeft ==
  normalizer.stage = "cleaned" =>
    /\ ~HasLineComment(normalizer.cleaned)
    /\ ~HasTrailingComma(normalizer.cleaned)
    /\ KeptInOrder

\* C10, amended: the repaired text holds no line comment; every comma followed,
\* after optional whitespace, by "}" or "]" is dropped together with that
\* whitespace, once and from left to right, so that a comma is left in front of
\* a closer only where the comment-free text had two commas with nothing but
\* whitespace between them in front of it; every other character is kept
\* unchanged and in order.
C10_RepairedText ==
  normalizer.stage = "cleaned" =>
    /\ ~HasLineComment(normalizer.cleaned)
    /\ HasTrailingComma(normalizer.cleaned)
         => HasCommaRun(WithoutComments(normalizer.candidate))
    /\ KeptInOrder

C10_Witness ==
  /\ normalizer.stage = "cleaned"
  /\ HasLineComment(normalizer.candidate)
  /\ HasTrailingComma(normalizer.stripped)
  /\ ~HasTrailingComma(normalizer.cleaned)
  /\ Len(normalizer.cleaned) < Len(normalizer.stripped)
  /\ ~JSONparse(normalizer.cleaned).threw
====
